---- MODULE Spec2Model ----
(***************************************************************************)
(* Model of gslib/tests/testcase/base.py (GsUtilTestCase: temporary names, *)
(* temporary files, directories and fifos, tearDown, the regex assertion)  *)
(* and of the help specifications of gslib/addlhelp/*.py.                  *)
(*                                                                         *)
(* A Python text string is a sequence of one-character strings, a bytes    *)
(* value a sequence of integers in 0..255, a filesystem path the sequence  *)
(* of its components from the root.                                        *)
(***************************************************************************)
EXTENDS Integers, Sequences, FiniteSets, TLC

VARIABLES
  phase,           \* "constructed", "setUp" or "tornDown": where the test case is
  testMethodName,  \* self._testMethodName
  tempdirs,        \* self.tempdirs
  fs,              \* the filesystem: path -> node
  created,         \* every fixture created since setUp, with the call's arguments
  oscalls,         \* the os/shutil calls of the last operation, in order
  lastOp,          \* the last operation, its arguments and its outcome
  lastName,        \* the last generated temporary name with its inputs
  spent,           \* fixtures the creation calls so far could have made
  ntear,           \* calls of tearDown so far
  rmfailed,        \* the directories whose removal by tearDown failed
  registered,      \* help topics loaded so far
  query,           \* the key of the last help lookup
  resolved         \* the topics the last help lookup resolved to

vars == <<phase, testMethodName, tempdirs, fs, created, oscalls, lastOp,
          lastName, spent, ntear, rmfailed, registered, query, resolved>>

helpVars == <<registered, query, resolved>>
caseVars == <<phase, tempdirs, fs, created, oscalls, lastOp, spent, ntear,
              rmfailed>>

Min(a, b) == IF a < b THEN a ELSE b

Range(s) == {s[i] : i \in DOMAIN s}

RECURSIVE Rep(_, _)
Rep(s, n) == IF n = 0 THEN <<>> ELSE s \o Rep(s, n - 1)

IsPrefix(p, q) == Len(p) <= Len(q) /\ SubSeq(q, 1, Len(p)) = p

(***************************************************************************)
(* Characters.                                                             *)
(***************************************************************************)
UpperChars ==
  <<"A","B","C","D","E","F","G","H","I","J","K","L","M",
    "N","O","P","Q","R","S","T","U","V","W","X","Y","Z">>

LowerChars ==
  <<"a","b","c","d","e","f","g","h","i","j","k","l","m",
    "n","o","p","q","r","s","t","u","v","w","x","y","z">>

HexDigits ==
  <<"0","1","2","3","4","5","6","7","8","9","a","b","c","d","e","f">>

\* The printable ASCII characters in code order: AsciiChars[i] has code 31 + i
\* ("GRAVE" stands for the grave accent, code 96).
AsciiChars ==
  <<" ","!","\"","#","$","%","&","'","(",")","*","+",",","-",".","/",
    "0","1","2","3","4","5","6","7","8","9",":",";","<","=",">","?",
    "@","A","B","C","D","E","F","G","H","I","J","K","L","M","N","O",
    "P","Q","R","S","T","U","V","W","X","Y","Z","[","\\","]","^","_",
    "GRAVE","a","b","c","d","e","f","g","h","i","j","k","l","m","n","o",
    "p","q","r","s","t","u","v","w","x","y","z","{","|","}","~">>

IndexOf(seq, c) == CHOOSE i \in DOMAIN seq : seq[i] = c

Ord(c) == 31 + IndexOf(AsciiChars, c)

\* str.lower() on one character
ToLower(c) ==
  IF c \in Range(UpperChars) THEN LowerChars[IndexOf(UpperChars, c)] ELSE c

\* The character U+6750 appended by MakeTempUnicodeName (one character, not ASCII).
UnicodeChar == "U+6750"

(***************************************************************************)
(* Temporary names.                                                        *)
(***************************************************************************)
MAX_BUCKET_LENGTH == 63

\* A random value v in 0..256^4-1 is the pair <<v \div 65536, v % 65536>>.
HalfWord == 65536

Hex4(h) == [i \in 1..4 |-> HexDigits[((h \div (16^(4 - i))) % 16) + 1]]

\* '%08x' % v
MakeRandomTestString(v) == Hex4(v[1]) \o Hex4(v[2])

\* util.MakeBucketNameValid: "_" becomes "-", uppercase becomes lowercase.
MakeBucketNameValid(name) ==
  [i \in 1..Len(name) |-> IF name[i] = "_" THEN "-" ELSE ToLower(name[i])]

KindBucket == <<"b","u","c","k","e","t">>
KindFile == <<"f","i","l","e">>
KindDirectory == <<"d","i","r","e","c","t","o","r","y">>
KindFifo == <<"f","i","f","o">>
KindContents == <<"c","o","n","t","e","n","t","s">>
KindObject == <<"o","b","j","e","c","t">>

GsutilTest == <<"g","s","u","t","i","l","-","t","e","s","t","-">>

\* the mutant of Truncate: one character too many is kept
TruncateOffByOne(name) ==
  SubSeq(name, 1, Min(Len(name), MAX_BUCKET_LENGTH - 8))

\* name[:MAX_BUCKET_LENGTH-9]
Truncate(name) == SubSeq(name, 1, Min(Len(name), MAX_BUCKET_LENGTH - 9))

\* the mutant of CoerceKind: the name is never coerced
CoerceNever(kind, name) == name

\* if kind == 'bucket': name = util.MakeBucketNameValid(name)
CoerceKind(kind, name) ==
  IF kind = KindBucket THEN MakeBucketNameValid(name) ELSE name

MakeTempName(method, kind, prefix, v) ==
  CoerceKind(kind,
             Truncate(prefix \o GsutilTest \o method \o <<"-">> \o kind)
               \o <<"-">> \o MakeRandomTestString(v))

MakeTempUnicodeName(method, kind, prefix, v) ==
  MakeTempName(method, kind, prefix, v) \o <<UnicodeChar>>

(***************************************************************************)
(* Inputs of the name generators.                                          *)
(***************************************************************************)
PrefixReps == 30
MethodReps == 9

Prefixes ==
  { <<>>,
    <<"M","y","_","P","r","e","-">>,
    Rep(<<"A","_">>, PrefixReps) }

TestFoo == <<"t","e","s","t","_","F","o","o">>

MethodNames == { TestFoo, Rep(<<"t","e","s","t","_">>, MethodReps) }

Kinds == {KindBucket, KindFile, KindDirectory, KindObject}

\* Values of random.randrange(256**4), as pairs <<high half, low half>>.
RandVals ==
  { <<0, 0>>, <<0, 1>>, <<256, 4096>>, <<43981, 61185>>,
    <<HalfWord - 1, HalfWord - 1>> }

(***************************************************************************)
(* The filesystem before the test: the system's temporary directory and a  *)
(* directory of the caller's that the test case never created.             *)
(***************************************************************************)
TmpRoot == << <<"t","m","p">> >>
ExtDir == << <<"e","x","t">> >>

DirNode == [kind |-> "dir"]

InitFs == [p \in {TmpRoot, ExtDir} |-> DirNode]

Init ==
  /\ phase = "constructed"
  /\ testMethodName \in MethodNames
  /\ tempdirs = <<>>
  /\ fs = InitFs
  /\ created = {}
  /\ oscalls = <<>>
  /\ lastOp = [call |-> [op |-> "none"], ok |-> TRUE, ret |-> <<>>]
  /\ lastName = [gen |-> "none"]
  /\ spent = 0
  /\ ntear = 0
  /\ rmfailed = {}
  /\ registered = {}
  /\ query = ""
  /\ resolved = {}

(***************************************************************************)
(* Arguments.  An optional or union-typed Python argument is a tagged      *)
(* record: t names the Python type, the other field holds the value.       *)
(***************************************************************************)
NoArg == [t |-> "none"]
Str(s) == [t |-> "str", s |-> s]
Tuple(l) == [t |-> "tuple", l |-> l]
Path(p) == [t |-> "path", p |-> p]
Bytes(b) == [t |-> "bytes", b |-> b]
Text(s) == [t |-> "text", s |-> s]
IntArg(n) == [t |-> "int", n |-> n]
Names(l) == [t |-> "list", names |-> l]

\* gslib.utils.posix_util.NA_ID and NA_MODE
NA_ID == -1
NA_MODE == -1

\* What the process and the clock give a newly written file.
Env == [uid |-> 1000, gid |-> 100, mode |-> 420, now |-> 1700000000]

(***************************************************************************)
(* Conversions.                                                            *)
(***************************************************************************)
Digits == <<"0","1","2","3","4","5","6","7","8","9">>

\* '%d' % n for n >= 0
RECURSIVE FormatDecimal(_)
FormatDecimal(n) ==
  IF n < 10 THEN <<Digits[n + 1]>>
  ELSE FormatDecimal(n \div 10) \o <<Digits[(n % 10) + 1]>>

\* str.encode('ascii') and six.ensure_binary on ASCII text
Encode(s) == [i \in 1..Len(s) |-> Ord(s[i])]

\* int(s, base) on a string of digits
RECURSIVE ParseInt(_, _)
ParseInt(s, base) ==
  IF s = <<>> THEN 0
  ELSE ParseInt(SubSeq(s, 1, Len(s) - 1), base) * base
         + (IndexOf(Digits, s[Len(s)]) - 1)

\* int(x): an int is returned as it is, a string is read in base 10
ToInt(x) == IF x.t = "int" THEN x.n ELSE ParseInt(x.s, 10)

\* ('test %d' % i).encode('ascii')
TestContents(i) == Encode(<<"t","e","s","t"," ">> \o FormatDecimal(i))

(***************************************************************************)
(* Paths and the filesystem.                                               *)
(***************************************************************************)
Dirname(p) == SubSeq(p, 1, Len(p) - 1)

IsAbs(c) == Len(c) > 0 /\ c[1] = "/"

\* os.path.join(p, *comps): an absolute component discards what precedes it
RECURSIVE JoinPath(_, _)
JoinPath(p, comps) ==
  IF comps = <<>> THEN p
  ELSE LET c == Head(comps)
       IN  JoinPath(IF IsAbs(c) THEN <<Tail(c)>> ELSE Append(p, c), Tail(comps))

Exists(f, p) == p = <<>> \/ p \in DOMAIN f
IsDir(f, p) == p = <<>> \/ (p \in DOMAIN f /\ f[p].kind = "dir")

\* The proper ancestors of p, p's parent included
Ancestors(p) == {SubSeq(p, 1, n) : n \in 1..(Len(p) - 1)}

Put(f, p, node) == [q \in DOMAIN f \cup {p} |-> IF q = p THEN node ELSE f[q]]

\* os.makedirs(d): every missing ancestor of d and d itself become directories
Makedirs(f, d) ==
  [q \in DOMAIN f \cup Ancestors(d) \cup {d} |->
     IF q \in DOMAIN f THEN f[q] ELSE DirNode]

\* os.rmdir: removes the directory only when nothing is in it
RmdirOnly(f, d) ==
  IF \E q \in DOMAIN f : q # d /\ IsPrefix(d, q) THEN f
  ELSE [q \in DOMAIN f \ {d} |-> f[q]]

\* shutil.rmtree(d) when it succeeds: d and everything under it is removed
Rmtree(f, d) == [q \in {r \in DOMAIN f : ~IsPrefix(d, r)} |-> f[q]]

Children(f, d) == {q \in DOMAIN f : Len(q) = Len(d) + 1 /\ IsPrefix(d, q)}

(***************************************************************************)
(* The operations on a world w = [fs, tempdirs, created, oscalls].  Each   *)
(* gives [w, ok, ret]: the world after it, whether it returned (ok) or     *)
(* raised, and the path it returned.                                       *)
(***************************************************************************)
Returns(w, p) == [w |-> w, ok |-> TRUE, ret |-> p]
Raises(w) == [w |-> w, ok |-> FALSE, ret |-> <<>>]

Fixture(path, by, tracked, name) ==
  [path |-> path, by |-> by, tracked |-> tracked, name |-> name]

OsCall(w, c) == [w EXCEPT !.oscalls = Append(@, c)]

\* self.tempdirs.append(tmpdir)
RegisterTempDir(w, tmpdir) == [w EXCEPT !.tempdirs = Append(@, tmpdir)]

\* The path tempfile.mkdtemp(prefix=name) makes: name + suffix under the
\* system's temporary directory.
MkdtempPath(name, suffix) == Append(TmpRoot, name \o suffix)

\* tempfile.mkdtemp: the directory is created (mkdtemp only uses a path that
\* does not exist yet)
Mkdtemp(w, tmpdir) ==
  [w EXCEPT !.fs = Put(@, tmpdir, DirNode),
            !.created = @ \cup {Fixture(tmpdir, "mkdtemp", TRUE, NoArg)}]

\* the mutant of ChownWanted: both ids are required
ChownWantedBoth(uid, gid) == uid # NA_ID /\ gid # NA_ID

\* uid != NA_ID or int(gid) != NA_ID
ChownWanted(uid, gid) == uid # NA_ID \/ gid # NA_ID

\* int(mode) != NA_MODE
ChmodWanted(mode) == ToInt(mode) # NA_MODE

\* os.chown(fpath, uid, gid): an id of -1 leaves that id as it is
Chown(w, fpath, uid, gid) ==
  OsCall([w EXCEPT !.fs[fpath].uid = IF uid = -1 THEN @ ELSE uid,
                   !.fs[fpath].gid = IF gid = -1 THEN @ ELSE gid],
         [call |-> "chown", path |-> fpath, uid |-> uid, gid |-> gid, mode |-> 0])

\* os.chmod(fpath, m)
Chmod(w, fpath, m) ==
  OsCall([w EXCEPT !.fs[fpath].mode = m],
         [call |-> "chmod", path |-> fpath, uid |-> 0, gid |-> 0, mode |-> m])

\* os.utime(fpath, (mtime, mtime))
Utime(w, fpath, t) ==
  [w EXCEPT !.fs[fpath].atime = t, !.fs[fpath].mtime = t]

\* open(fpath, 'wb') and f.write(contents): a new file gets the process's ids
\* and default mode, an existing file keeps its owner and mode
WriteFile(f, fpath, contents) ==
  Put(f, fpath,
      IF fpath \in DOMAIN f
      THEN [f[fpath] EXCEPT !.contents = contents, !.mtime = Env.now]
      ELSE [kind |-> "file", contents |-> contents, mtime |-> Env.now,
            atime |-> Env.now, uid |-> Env.uid, gid |-> Env.gid,
            mode |-> Env.mode])

\* file_name or self.MakeTempName(kind), as the components to join
NameComps(method, file_name, kind, v) ==
  IF file_name.t = "none" THEN <<MakeTempName(method, kind, <<>>, v)>>
  ELSE IF file_name.t = "tuple" THEN file_name.l
  ELSE <<file_name.s>>

\* Whether tmpdir is a tracked directory or lies under one
IsTracked(dirs, tmpdir) == \E i \in DOMAIN dirs : IsPrefix(dirs[i], tmpdir)

\* An ancestor of fpath that is not a directory: makedirs or open raises
Blocked(f, fpath) ==
  \E a \in Ancestors(fpath) : a \in DOMAIN f /\ f[a].kind # "dir"

\* if not os.path.isdir(os.path.dirname(fpath)): os.makedirs(...)
WithDirs(w, fpath, tracked, file_name) ==
  IF IsDir(w.fs, Dirname(fpath)) THEN w
  ELSE [w EXCEPT !.fs = Makedirs(@, Dirname(fpath)),
                 !.created = @ \cup
                   {Fixture(q, "makedirs", tracked, file_name) :
                      q \in Ancestors(fpath) \ DOMAIN w.fs}]

\* contents if contents is not None else self.MakeTempName('contents'), and
\* six.ensure_binary of a text
FileData(method, contents, v) ==
  IF contents.t = "none"
  THEN Encode(MakeTempName(method, KindContents, <<>>, v))
  ELSE IF contents.t = "text" THEN Encode(contents.s)
  ELSE contents.b

\* with open(fpath, 'wb') as f: f.write(contents)
Written(w, fpath, data, tracked, file_name) ==
  [w EXCEPT !.fs = WriteFile(@, fpath, data),
            !.created = @ \cup {Fixture(fpath, "open", tracked, file_name)}]

\* if mtime is not None: os.utime(fpath, (mtime, mtime))
WithUtime(w, fpath, mtime) ==
  IF mtime.t # "none" THEN Utime(w, fpath, mtime.n) ELSE w

\* if uid != NA_ID or int(gid) != NA_ID: os.chown(fpath, uid, int(gid))
WithChown(w, fpath, uid, gid) ==
  IF ChownWanted(uid, gid) THEN Chown(w, fpath, uid, gid) ELSE w

\* if int(mode) != NA_MODE: os.chmod(fpath, int(mode, 8))
WithChmod(w, fpath, mode) ==
  IF ChmodWanted(mode) THEN Chmod(w, fpath, ParseInt(mode.s, 8)) ELSE w

\* CreateTempFile from the write on: w1 is w with fpath's directory made; fail
\* says that open() raises
WriteIn(w, w1, fpath, data, tracked, file_name, mtime, mode, uid, gid, fail) ==
  IF Blocked(w.fs, fpath) THEN Raises(w)
  ELSE IF fail \/ IsDir(w1.fs, fpath) THEN Raises(w1)
  ELSE Returns(WithChmod(WithChown(WithUtime(
                 Written(w1, fpath, data, tracked, file_name),
                 fpath, mtime), fpath, uid, gid), fpath, mode),
               fpath)

\* CreateTempFile once fpath is known
WriteAt(w, method, fpath, tracked, contents, file_name, mtime, mode, uid, gid, rnd, fail) ==
  WriteIn(w, WithDirs(w, fpath, tracked, file_name), fpath,
          FileData(method, contents, rnd.contents), tracked, file_name,
          mtime, mode, uid, gid, fail)

\* CreateTempFile once tmpdir is known; rnd.name and rnd.contents are the random
\* values of the generated names
WriteTempFile(w, method, tmpdir, tracked, contents, file_name, mtime, mode, uid, gid, rnd, fail) ==
  WriteAt(w, method,
          JoinPath(tmpdir, NameComps(method, file_name, KindFile, rnd.name)),
          tracked, contents, file_name, mtime, mode, uid, gid, rnd, fail)

\* the mutant of FileIndex: the files are numbered from 1
FileIndexFromOne(i) == i + 1

\* enumerate(test_files): the index of the i-th file, i counted from 0
FileIndex(i) == i

\* contents_file of CreateTempDir's loop
ContentsFile(contents, i) ==
  IF contents.t = "none" THEN Bytes(TestContents(FileIndex(i))) ELSE contents

\* The loop of CreateTempDir over the names from index i on; failAt is the
\* index of the file whose creation raises (none when no name has it)
RECURSIVE Populate(_, _, _, _, _, _, _)
RECURSIVE PopulateRest(_, _, _, _, _, _, _)
Populate(w, method, tmpdir, names, contents, i, failAt) ==
  IF i >= Len(names) THEN Returns(w, tmpdir)
  ELSE PopulateRest(
         WriteTempFile(w, method, tmpdir, TRUE, ContentsFile(contents, i),
                       names[i + 1], NoArg, IntArg(NA_MODE), NA_ID, NA_ID,
                       [name |-> <<0, 0>>, contents |-> <<0, 0>>], i = failAt),
         method, tmpdir, names, contents, i, failAt)

\* The loop after file i: an exception ends it
PopulateRest(r, method, tmpdir, names, contents, i, failAt) ==
  IF r.ok THEN Populate(r.w, method, tmpdir, names, contents, i + 1, failAt)
  ELSE r

\* The path of the directory CreateTempDir makes with the random values rnd
TempDirPath(method, rnd) ==
  MkdtempPath(MakeTempName(method, KindDirectory, <<>>, rnd.dir), rnd.suffix)

\* test_files as the list of names: a number gives that many generated names
TestFileNames(method, test_files, rnd) ==
  IF test_files.t = "int"
  THEN [i \in 1..test_files.n |->
          Str(MakeTempName(method, KindFile, <<>>, rnd.files[i]))]
  ELSE test_files.names

\* CreateTempDir returns tmpdir unless populating raised
DirResult(r, tmpdir) == IF r.ok THEN Returns(r.w, tmpdir) ELSE Raises(r.w)

\* the mutant of CreateTempDirAt: the directory is registered after it is
\* populated, so not at all when populating raises
RegisterIfOk(r, tmpdir) ==
  IF r.ok THEN Returns(RegisterTempDir(r.w, tmpdir), tmpdir) ELSE Raises(r.w)

CreateTempDirRegisterLast(w, method, tmpdir, names, contents, failAt) ==
  RegisterIfOk(Populate(Mkdtemp(w, tmpdir), method, tmpdir, names, contents,
                        0, failAt),
               tmpdir)

\* CreateTempDir once mkdtemp's path is known
CreateTempDirAt(w, method, tmpdir, names, contents, failAt) ==
  DirResult(Populate(RegisterTempDir(Mkdtemp(w, tmpdir), tmpdir), method,
                     tmpdir, names, contents, 0, failAt),
            tmpdir)

\* CreateTempDir; rnd.dir and rnd.files are the random values of the generated
\* names, rnd.suffix is mkdtemp's
CreateTempDirOp(w, method, test_files, contents, rnd, failAt) ==
  CreateTempDirAt(w, method, TempDirPath(method, rnd),
                  TestFileNames(method, test_files, rnd), contents, failAt)

\* tmpdir or self.CreateTempDir(): the world and the directory to use
TmpdirOrNew(w, method, tmpdir, rnd) ==
  IF tmpdir.t = "none"
  THEN CreateTempDirOp(w, method, IntArg(0), NoArg, rnd, -1)
  ELSE Returns(w, tmpdir.p)

\* CreateTempFile in the directory d.ret of the world d.w
WriteTempFileIn(d, method, tracked, contents, file_name, mtime, mode, uid, gid, rnd, fail) ==
  WriteTempFile(d.w, method, d.ret, tracked, contents, file_name,
                mtime, mode, uid, gid, rnd, fail)

\* CreateTempFile
CreateTempFileOp(w, method, tmpdir, contents, file_name, mtime, mode, uid, gid, rnd, fail) ==
  WriteTempFileIn(TmpdirOrNew(w, method, tmpdir, rnd), method,
                  tmpdir.t = "none" \/ IsTracked(w.tempdirs, tmpdir.p),
                  contents, file_name, mtime, mode, uid, gid, rnd, fail)

\* os.mkfifo(fpath); fail says that it raises
Mkfifo(w, fpath, tracked, file_name, fail) ==
  IF fail \/ Exists(w.fs, fpath) \/ ~IsDir(w.fs, Dirname(fpath)) THEN Raises(w)
  ELSE Returns([w EXCEPT !.fs = Put(@, fpath, [kind |-> "fifo"]),
                         !.created = @ \cup
                           {Fixture(fpath, "mkfifo", tracked, file_name)}],
               fpath)

\* CreateTempFifo in the directory d.ret of the world d.w
MkfifoIn(d, method, tracked, file_name, rnd, fail) ==
  Mkfifo(d.w, JoinPath(d.ret, NameComps(method, file_name, KindFifo, rnd.name)),
         tracked, file_name, fail)

\* CreateTempFifo
CreateTempFifoOp(w, method, tmpdir, file_name, rnd, fail) ==
  MkfifoIn(TmpdirOrNew(w, method, tmpdir, rnd), method,
           tmpdir.t = "none" \/ IsTracked(w.tempdirs, tmpdir.p),
           file_name, rnd, fail)

\* the mutant of RmtreeIgnoreErrors: errors of rmtree are raised
RmtreeRaisesErrors == FALSE

\* shutil.rmtree(tmpdir, ignore_errors=True)
RmtreeIgnoreErrors == TRUE

RmtreeCall(d) ==
  [call |-> "rmtree", path |-> d, uid |-> 0, gid |-> 0, mode |-> 0]

\* tmpdir = self.tempdirs.pop(), and the call of rmtree
Popped(w, tmpdir) ==
  OsCall([w EXCEPT !.tempdirs = SubSeq(@, 1, Len(@) - 1)], RmtreeCall(tmpdir))

\* tearDown's loop; failing are the directories whose removal fails
RECURSIVE TearDownLoop(_, _)
RECURSIVE RemoveTempDir(_, _, _)
TearDownLoop(w, failing) ==
  IF w.tempdirs = <<>> THEN Returns(w, <<>>)
  ELSE RemoveTempDir(Popped(w, w.tempdirs[Len(w.tempdirs)]),
                     w.tempdirs[Len(w.tempdirs)], failing)

\* shutil.rmtree(tmpdir, ignore_errors=True) in the world w1, and the loop on
RemoveTempDir(w1, tmpdir, failing) ==
  IF tmpdir \in failing
  THEN IF RmtreeIgnoreErrors THEN TearDownLoop(w1, failing) ELSE Raises(w1)
  ELSE TearDownLoop([w1 EXCEPT !.fs = Rmtree(@, tmpdir)], failing)

(***************************************************************************)
(* The name generators as operations of the test case.                     *)
(***************************************************************************)
CallMakeTempName(kind, prefix, v) ==
  /\ lastName' = [gen |-> "MakeTempName", kind |-> kind, prefix |-> prefix,
                  rand |-> v,
                  name |-> MakeTempName(testMethodName, kind, prefix, v)]
  /\ UNCHANGED <<testMethodName, caseVars, helpVars>>

CallMakeTempUnicodeName(kind, prefix, v) ==
  /\ lastName' = [gen |-> "MakeTempUnicodeName", kind |-> kind,
                  prefix |-> prefix, rand |-> v,
                  name |-> MakeTempUnicodeName(testMethodName, kind, prefix, v)]
  /\ UNCHANGED <<testMethodName, caseVars, helpVars>>

NextNames ==
  \/ \E k \in Kinds, p \in Prefixes, v \in RandVals : CallMakeTempName(k, p, v)
  \/ \E k \in Kinds, p \in Prefixes, v \in RandVals :
       CallMakeTempUnicodeName(k, p, v)

SpecNames == Init /\ [][NextNames]_vars

(***************************************************************************)
(* The test case's operations.                                             *)
(***************************************************************************)
World == [fs |-> fs, tempdirs |-> tempdirs, created |-> created,
          oscalls |-> <<>>]

\* The state after a call that gave r; lastOp keeps the call and its outcome
Commit(r, call) ==
  /\ fs' = r.w.fs
  /\ tempdirs' = r.w.tempdirs
  /\ created' = r.w.created
  /\ oscalls' = r.w.oscalls
  /\ lastOp' = [call |-> call, ok |-> r.ok, ret |-> r.ret]

\* The fixtures a CreateTempDir call can make: the directory and its files
Cost(test_files) ==
  1 + (IF test_files.t = "int" THEN test_files.n ELSE Len(test_files.names))

SetUp ==
  /\ phase = "constructed"
  /\ phase' = "setUp"
  /\ tempdirs' = <<>>
  /\ oscalls' = <<>>
  /\ lastOp' = [call |-> [op |-> "setUp"], ok |-> TRUE, ret |-> <<>>]
  /\ UNCHANGED <<testMethodName, fs, created, lastName, spent, ntear, rmfailed,
                 helpVars>>

CallCreateTempDir(test_files, contents, rnd, failAt) ==
  /\ phase = "setUp"
  /\ TempDirPath(testMethodName, rnd) \notin DOMAIN fs
  /\ Commit(CreateTempDirOp(World, testMethodName, test_files, contents,
                            rnd, failAt),
            [op |-> "CreateTempDir", test_files |-> test_files,
             contents |-> contents, rnd |-> rnd,
             tmpdir |-> TempDirPath(testMethodName, rnd)])
  /\ spent' = spent + Cost(test_files)
  /\ UNCHANGED <<phase, testMethodName, lastName, ntear, rmfailed, helpVars>>

CallCreateTempFile(tmpdir, contents, file_name, mtime, mode, uid, gid, rnd, fail) ==
  /\ phase = "setUp"
  /\ tmpdir.t = "none" => TempDirPath(testMethodName, rnd) \notin DOMAIN fs
  /\ Commit(CreateTempFileOp(World, testMethodName, tmpdir, contents,
                             file_name, mtime, mode, uid, gid, rnd, fail),
            [op |-> "CreateTempFile", tmpdir |-> tmpdir,
             contents |-> contents, file_name |-> file_name,
             mtime |-> mtime, mode |-> mode, uid |-> uid, gid |-> gid,
             rnd |-> rnd])
  /\ spent' = spent + 1 + (IF tmpdir.t = "none" THEN 1 ELSE 0)
  /\ UNCHANGED <<phase, testMethodName, lastName, ntear, rmfailed, helpVars>>

CallCreateTempFifo(tmpdir, file_name, rnd, fail) ==
  /\ phase = "setUp"
  /\ tmpdir.t = "none" => TempDirPath(testMethodName, rnd) \notin DOMAIN fs
  /\ Commit(CreateTempFifoOp(World, testMethodName, tmpdir, file_name,
                             rnd, fail),
            [op |-> "CreateTempFifo", tmpdir |-> tmpdir,
             file_name |-> file_name, rnd |-> rnd])
  /\ spent' = spent + 1 + (IF tmpdir.t = "none" THEN 1 ELSE 0)
  /\ UNCHANGED <<phase, testMethodName, lastName, ntear, rmfailed, helpVars>>

TearDown(failing) ==
  /\ phase \in {"setUp", "tornDown"}
  /\ phase' = "tornDown"
  /\ Commit(TearDownLoop(World, failing),
            [op |-> "tearDown", dirs |-> tempdirs, failing |-> failing])
  /\ ntear' = ntear + 1
  /\ rmfailed' = rmfailed \cup failing
  /\ UNCHANGED <<testMethodName, lastName, spent, helpVars>>

(***************************************************************************)
(* Inputs of the fixture operations.                                       *)
(***************************************************************************)
MaxFixtures == 2
MaxTestFiles == 3
MaxTearDowns == 2
MaxAttrCalls == 2

Zero == <<0, 0>>
FsRandVals == {<<0, 0>>, <<0, 1>>}
DirFileRandVals == {<<0, 0>>, <<0, 1>>, <<43981, 61185>>}
MkdtempSuffixes ==
  { <<"a","b","c","d","e","f","g","h">>, <<"x","_","0","1","2","3","4","5">> }

Foo == <<"f","o","o">>
Sub == <<"s","u","b">>
Pipe == <<"p","i","p","e">>
AbsName == <<"/","a","b","s">>

\* The random values a call draws: those it does not draw are Zero; files are
\* the values for the generated names of CreateTempDir's files.
Rnd(newdir, files, name, contents) ==
  [dir : IF newdir THEN FsRandVals ELSE {Zero},
   suffix : IF newdir THEN MkdtempSuffixes ELSE {<<>>},
   files : files,
   name : IF name THEN FsRandVals ELSE {Zero},
   contents : IF contents THEN FsRandVals ELSE {Zero}]

\* A call that draws no random value
NoRnd == [dir |-> Zero, suffix |-> <<>>, files |-> <<>>, name |-> Zero,
          contents |-> Zero]

TmpdirArgs == {NoArg, Path(ExtDir)} \cup {Path(tempdirs[i]) : i \in DOMAIN tempdirs}
FileNameArgs == {NoArg, Str(Foo), Tuple(<<Sub, Foo>>), Str(AbsName)}
FifoNameArgs == {NoArg, Str(Pipe), Tuple(<<Sub, Pipe>>)}
ContentsArgs == {NoArg, Bytes(<<120>>), Text(<<"h","i">>)}
NameLists == {Names(<<Str(Foo), Tuple(<<Sub, Foo>>)>>)}

DirStep(limit, vals) ==
  \E test_files \in {IntArg(n) : n \in 0..MaxTestFiles} \cup NameLists,
     contents \in {NoArg, Bytes(<<120>>)} :
    /\ spent + Cost(test_files) <= limit
    /\ \E rnd \in Rnd(TRUE,
                      [1..(IF test_files.t = "int" THEN test_files.n ELSE 0)
                         -> vals],
                      FALSE, FALSE),
          failAt \in -1..(Cost(test_files) - 2) :
         CallCreateTempDir(test_files, contents, rnd, failAt)

FileStep ==
  \E tmpdir \in TmpdirArgs, file_name \in FileNameArgs,
     contents \in ContentsArgs, fail \in BOOLEAN :
    /\ spent + 1 + (IF tmpdir.t = "none" THEN 1 ELSE 0) <= MaxFixtures
    /\ \E rnd \in Rnd(tmpdir.t = "none", {<<>>}, file_name.t = "none",
                      contents.t = "none") :
         CallCreateTempFile(tmpdir, contents, file_name, NoArg,
                            IntArg(NA_MODE), NA_ID, NA_ID, rnd, fail)

FifoStep ==
  \E tmpdir \in TmpdirArgs, file_name \in FifoNameArgs, fail \in BOOLEAN :
    /\ spent + 1 + (IF tmpdir.t = "none" THEN 1 ELSE 0) <= MaxFixtures
    /\ \E rnd \in Rnd(tmpdir.t = "none", {<<>>}, file_name.t = "none", FALSE) :
         CallCreateTempFifo(tmpdir, file_name, rnd, fail)

TearDownStep ==
  /\ ntear < MaxTearDowns
  /\ \E failing \in SUBSET Range(tempdirs) : TearDown(failing)

Next ==
  \/ SetUp
  \/ DirStep(MaxFixtures, FsRandVals)
  \/ FileStep
  \/ FifoStep
  \/ TearDownStep

\* The fixture operations are explored for the test method test_Foo.
InitFixtures == Init /\ testMethodName = TestFoo

Spec == InitFixtures /\ [][Next]_vars

\* CreateTempDir alone, with up to MaxTestFiles generated files
NextDirs ==
  \/ SetUp
  \/ DirStep(MaxTestFiles + 1, DirFileRandVals)

SpecDirs == InitFixtures /\ [][NextDirs]_vars

\* CreateTempFile with mtime, mode, uid and gid, in a directory of the test's
AttrStep ==
  \E i \in DOMAIN tempdirs,
     mtime \in {NoArg, IntArg(1000000000)},
     mode \in {IntArg(NA_MODE), Str(<<"6","4","0">>), Str(<<"0","0","0">>)},
     uid \in {NA_ID, 0},
     gid \in {NA_ID, 100},
     fail \in BOOLEAN :
    /\ spent < 1 + MaxAttrCalls
    /\ CallCreateTempFile(Path(tempdirs[i]), Bytes(<<120>>), Str(Foo), mtime,
                          mode, uid, gid, NoRnd, fail)

NextAttrs ==
  \/ SetUp
  \/ DirStep(1, FsRandVals)
  \/ AttrStep

SpecAttrs == InitFixtures /\ [][NextAttrs]_vars

(***************************************************************************)
(* assertRegexpMatchesWithFlags.  A pattern is a literal string (it matches *)
(* where it occurs), given as a str or compiled with flags.                *)
(***************************************************************************)
\* The flags of Python's re module
Re == [IGNORECASE |-> 2, MULTILINE |-> 8, UNICODE |-> 32]

Compiled(p, flags) == [t |-> "compiled", pattern |-> p, flags |-> flags]

\* a | b on non-negative integers
RECURSIVE BitOr(_, _)
BitOr(a, b) ==
  IF a = 0 THEN b
  ELSE IF b = 0 THEN a
  ELSE (IF a % 2 = 1 \/ b % 2 = 1 THEN 1 ELSE 0) + 2 * BitOr(a \div 2, b \div 2)

HasFlag(flags, f) == (flags \div f) % 2 = 1

\* the mutant of Compile: the flags of a compiled pattern are dropped
CompileDropsPatternFlags(pattern, flags) ==
  IF pattern.t = "str"
  THEN [pattern |-> pattern.s, flags |-> BitOr(flags, Re.UNICODE)]
  ELSE [pattern |-> pattern.pattern, flags |-> flags]

\* re.compile(pattern, flags=flags) for a str (a str pattern is a UNICODE one),
\* re.compile(pattern.pattern, flags=pattern.flags | flags) otherwise
Compile(pattern, flags) ==
  IF pattern.t = "str"
  THEN [pattern |-> pattern.s, flags |-> BitOr(flags, Re.UNICODE)]
  ELSE [pattern |-> pattern.pattern, flags |-> BitOr(pattern.flags, flags)]

CharMatches(a, b, flags) ==
  IF HasFlag(flags, Re.IGNORECASE) THEN ToLower(a) = ToLower(b) ELSE a = b

\* pattern.search(text)
Search(c, text) ==
  \E k \in 0..(Len(text) - Len(c.pattern)) :
    \A i \in 1..Len(c.pattern) : CharMatches(c.pattern[i], text[k + i], c.flags)

\* repr() of a string of letters
Repr(str) == <<"'">> \o str \o <<"'">>

RegexDidntMatch ==
  <<"R","e","g","e","x"," ","d","i","d","n","'","t"," ","m","a","t","c","h">>

\* '%s: %r not found in %r' % (msg or 'Regex didn\'t match', pattern, text)
FailureMsg(msg, p, text) ==
  (IF msg.t = "none" \/ msg.s = <<>> THEN RegexDidntMatch ELSE msg.s)
    \o <<":"," ">> \o Repr(p)
    \o <<" ","n","o","t"," ","f","o","u","n","d"," ","i","n"," ">> \o Repr(text)

\* The assertion on the compiled pattern c: it returns, or raises
\* self.failureException with the message in ret
AssertSearch(c, text, msg) ==
  IF Search(c, text) THEN [ok |-> TRUE, ret |-> <<>>]
  ELSE [ok |-> FALSE, ret |-> FailureMsg(msg, c.pattern, text)]

assertRegexpMatchesWithFlags(text, pattern, msg, flags) ==
  AssertSearch(Compile(pattern, flags), text, msg)

Asserted(r, call) == lastOp' = [call |-> call, ok |-> r.ok, ret |-> r.ret]

CallAssertRegexp(text, pattern, msg, flags) ==
  /\ Asserted(assertRegexpMatchesWithFlags(text, pattern, msg, flags),
              [op |-> "assertRegexpMatchesWithFlags", text |-> text,
               pattern |-> pattern, msg |-> msg, flags |-> flags])
  /\ UNCHANGED <<phase, testMethodName, tempdirs, fs, created, oscalls,
                 lastName, spent, ntear, rmfailed, helpVars>>

Abc == <<"a","b","c">>
Xyz == <<"x","y","z">>

RegexTexts == { <<"A","B","C">>, <<"x","a","b","c","x">>, <<>> }
RegexPatterns ==
  { Str(Abc), Str(Xyz), Str(<<"B">>),
    Compiled(Abc, Re.UNICODE), Compiled(Abc, BitOr(Re.UNICODE, Re.IGNORECASE)),
    Compiled(Xyz, BitOr(Re.UNICODE, Re.IGNORECASE)) }
RegexMsgs == { NoArg, Text(<<>>), Text(<<"o","o","p","s">>) }
RegexFlags == { 0, Re.IGNORECASE, Re.MULTILINE, BitOr(Re.IGNORECASE, Re.MULTILINE) }

NextRegex ==
  \E text \in RegexTexts, pattern \in RegexPatterns, msg \in RegexMsgs,
     flags \in RegexFlags :
    CallAssertRegexp(text, pattern, msg, flags)

SpecRegex == Init /\ [][NextRegex]_vars

(***************************************************************************)
(* The help specifications of gslib/addlhelp.                              *)
(***************************************************************************)
ApisDetailedHelpText == "detailed_help/apis.md"

ApisHelpSpec ==
  [help_name |-> "apis",
   help_name_aliases |-> <<"XML", "JSON", "api", "force_api", "prefer_api">>,
   help_type |-> "additional_help",
   help_one_line_summary |-> "Cloud Storage APIs",
   help_text |-> ApisDetailedHelpText]

Crc32cDetailedHelpText == "detailed_help/crc32c.md"

Crc32cHelpSpec ==
  [help_name |-> "crc32c",
   help_name_aliases |-> <<"crc32", "crc", "crcmod">>,
   help_type |-> "additional_help",
   help_one_line_summary |-> "CRC32C and Installing crcmod",
   help_text |-> Crc32cDetailedHelpText]

EncodingDetailedHelpText == "detailed_help/encoding.md"

EncodingHelpSpec ==
  [help_name |-> "encoding",
   help_name_aliases |->
     <<"encodings", "utf8", "utf-8", "latin1", "unicode", "interoperability">>,
   help_type |-> "additional_help",
   help_one_line_summary |-> "Filename encoding and interoperability problems",
   help_text |-> EncodingDetailedHelpText]

ProjectsDetailedHelpText == "detailed_help.md"

ProjectsHelpSpec ==
  [help_name |-> "projects",
   help_name_aliases |->
     <<"apis console", "cloud console", "console", "dev console", "project",
       "proj", "project-id">>,
   help_type |-> "additional_help",
   help_one_line_summary |-> "Working With Projects",
   help_text |-> ProjectsDetailedHelpText]

SecurityDetailedHelpText == "detailed_help/security.md"

\* the mutant of SecurityHelpSpec: an alias of the projects topic is reused
SecurityHelpSpecSharedAlias ==
  [help_name |-> "security",
   help_name_aliases |->
     <<"hmac", "https", "oauth", "protection", "privacy", "proxies", "project",
       "signing", "telemetry", "tls">>,
   help_type |-> "additional_help",
   help_one_line_summary |-> "Security and Privacy Considerations",
   help_text |-> SecurityDetailedHelpText]

SecurityHelpSpec ==
  [help_name |-> "security",
   help_name_aliases |->
     <<"hmac", "https", "oauth", "protection", "privacy", "proxies", "proxy,",
       "signing", "telemetry", "tls">>,
   help_type |-> "additional_help",
   help_one_line_summary |-> "Security and Privacy Considerations",
   help_text |-> SecurityDetailedHelpText]

WildcardsDetailedHelpText == "detailed_help/wildcards.md"

WildcardsHelpSpec ==
  [help_name |-> "wildcards",
   help_name_aliases |-> <<"wildcard", "*", "**", "?">>,
   help_type |-> "additional_help",
   help_one_line_summary |-> "Wildcard Names",
   help_text |-> WildcardsDetailedHelpText]

HelpSpecs ==
  { ApisHelpSpec, Crc32cHelpSpec, EncodingHelpSpec, ProjectsHelpSpec,
    SecurityHelpSpec, WildcardsHelpSpec }

\* The keys a topic is found by: its name and its aliases
HelpKeys(h) == {h.help_name} \cup Range(h.help_name_aliases)

\* A topic module is imported: its CommandOptions class, with its help_spec,
\* is defined
LoadHelpProvider(h) ==
  /\ h \notin registered
  /\ registered' = registered \cup {h}
  /\ UNCHANGED <<query, resolved, testMethodName, caseVars, lastName>>

\* The help subsystem looks a key up among the loaded topics
LookupHelp(key) ==
  /\ query' = key
  /\ resolved' = {h \in registered : key \in HelpKeys(h)}
  /\ UNCHANGED <<registered, testMethodName, caseVars, lastName>>

LookupKeys == UNION {HelpKeys(h) : h \in HelpSpecs} \cup {"nosuchtopic"}

NextHelp ==
  \/ \E h \in HelpSpecs : LoadHelpProvider(h)
  \/ \E key \in LookupKeys : LookupHelp(key)

SpecHelp == InitFixtures /\ [][NextHelp]_vars

(***************************************************************************)
(* Temporary names (MakeTempName, MakeTempUnicodeName).                    *)
(***************************************************************************)
IsHex8(s) == Len(s) = 8 /\ \A i \in 1..8 : s[i] \in Range(HexDigits)

HexVal(c) == IndexOf(HexDigits, c) - 1

\* The value four hexadecimal digits stand for
HexDecode4(s) ==
  ((HexVal(s[1]) * 16 + HexVal(s[2])) * 16 + HexVal(s[3])) * 16 + HexVal(s[4])

HexDecode(s) == <<HexDecode4(SubSeq(s, 1, 4)), HexDecode4(SubSeq(s, 5, 8))>>

Last8(name) == SubSeq(name, Len(name) - 7, Len(name))

\* C1 as claimed: every name either generator produced is at most 63
\* characters long and ends in 8 lowercase hexadecimal digits.
C1_AllNamesBounded ==
  lastName.gen # "none" =>
    /\ Len(lastName.name) <= MAX_BUCKET_LENGTH
    /\ IsHex8(Last8(lastName.name))

\* C1 as amended: a name of MakeTempName is at most 63 characters long and its
\* last 8 characters are the hexadecimal encoding of the random value drawn; a
\* name of MakeTempUnicodeName is such a name followed by the one character
\* U+6750, so it is at most 64 characters long and the 8 characters before its
\* last one are that encoding.
C1_NameShape ==
  /\ lastName.gen = "MakeTempName" =>
       /\ Len(lastName.name) <= MAX_BUCKET_LENGTH
       /\ IsHex8(Last8(lastName.name))
       /\ HexDecode(Last8(lastName.name)) = lastName.rand
  /\ lastName.gen = "MakeTempUnicodeName" =>
       /\ Len(lastName.name) <= MAX_BUCKET_LENGTH + 1
       /\ lastName.name[Len(lastName.name)] = UnicodeChar
       /\ IsHex8(Last8(SubSeq(lastName.name, 1, Len(lastName.name) - 1)))
       /\ HexDecode(Last8(SubSeq(lastName.name, 1, Len(lastName.name) - 1)))
            = lastName.rand

\* A unicode name of full length: its base was truncated.
C1_Witness ==
  /\ lastName.gen = "MakeTempUnicodeName"
  /\ Len(lastName.prefix) + Len(GsutilTest) + Len(testMethodName) + 1
       + Len(lastName.kind) > MAX_BUCKET_LENGTH - 9
  /\ Len(lastName.name) = MAX_BUCKET_LENGTH + 1

\* C6: a name MakeTempName returns for kind 'bucket' holds no uppercase letter
\* and no underscore anywhere, the caller's prefix included, and is at most 63
\* characters long.
C6_BucketNameValid ==
  (lastName.gen = "MakeTempName" /\ lastName.kind = KindBucket) =>
    /\ \A i \in 1..Len(lastName.name) :
         lastName.name[i] \notin Range(UpperChars) /\ lastName.name[i] # "_"
    /\ Len(lastName.name) <= MAX_BUCKET_LENGTH

\* A bucket name of full length whose prefix has uppercase letters and
\* underscores.
C6_Witness ==
  /\ lastName.gen = "MakeTempName"
  /\ lastName.kind = KindBucket
  /\ \E i \in 1..Len(lastName.prefix) : lastName.prefix[i] = "_"
  /\ \E i \in 1..Len(lastName.prefix) : lastName.prefix[i] \in Range(UpperChars)
  /\ Len(lastName.name) = MAX_BUCKET_LENGTH

(***************************************************************************)
(* Fixtures and tearDown.                                                  *)
(***************************************************************************)
\* A file name that cannot lead out of tmpdir: no absolute component
Relative(file_name) ==
  /\ file_name.t = "str" => ~IsAbs(file_name.s)
  /\ file_name.t = "tuple" => \A i \in DOMAIN file_name.l : ~IsAbs(file_name.l[i])

C3_TearDown ==
  [][ntear' = ntear + 1 =>
        /\ lastOp'.ok
        /\ tempdirs' = <<>>
        /\ oscalls' = [i \in 1..Len(tempdirs) |->
                         RmtreeCall(tempdirs[Len(tempdirs) + 1 - i])]
        /\ tempdirs = <<>> => (fs' = fs /\ oscalls' = <<>>)]_vars

\* A second tearDown has run, after a first one that had two directories to
\* remove and failed to remove one.
C3_Witness ==
  /\ ntear = 2
  /\ tempdirs = <<>>
  /\ Cardinality({c \in created : c.by = "mkdtemp"}) >= 2
  /\ rmfailed # {}

\* C8: during the test every directory mkdtemp made in CreateTempDir is in
\* self.tempdirs, also when populating it raised; the first tearDown calls
\* rmtree on each of them.
C8_TempDirsRegistered ==
  /\ phase = "setUp" =>
       \A c \in created : c.by = "mkdtemp" => c.path \in Range(tempdirs)
  /\ (phase = "tornDown" /\ ntear = 1) =>
       \A c \in created :
         c.by = "mkdtemp" => RmtreeCall(c.path) \in Range(oscalls)

\* CreateTempDir raised while populating: the directory exists and is tracked.
C8_Witness ==
  /\ phase = "setUp"
  /\ lastOp.call.op = "CreateTempDir"
  /\ ~lastOp.ok
  /\ lastOp.call.tmpdir \in DOMAIN fs
  /\ lastOp.call.tmpdir \in Range(tempdirs)

(***************************************************************************)
(* CreateTempDir with generated files.                                     *)
(***************************************************************************)
\* CreateTempDir(test_files=N, contents=None) returned
GeneratedDir ==
  /\ lastOp.call.op = "CreateTempDir"
  /\ lastOp.ok
  /\ lastOp.call.test_files.t = "int"
  /\ lastOp.call.contents.t = "none"

\* The path of the i-th generated file, i counted from 1
GeneratedFile(i) ==
  Append(lastOp.ret,
         MakeTempName(testMethodName, KindFile, <<>>, lastOp.call.rnd.files[i]))

\* The ASCII bytes of "test j" for j < 10
TestBytes(j) == <<116, 101, 115, 116, 32, 48 + j>>

FileHolds(p, bytes) ==
  p \in DOMAIN fs /\ fs[p].kind = "file" /\ fs[p].contents = bytes

\* C4 as claimed: the directory holds exactly N files and the i-th generated
\* file holds "test i", whatever the random suffixes are.
C4_ExactlyNFiles ==
  GeneratedDir =>
    /\ Cardinality(Children(fs, lastOp.ret)) = lastOp.call.test_files.n
    /\ \A i \in 1..lastOp.call.test_files.n :
         FileHolds(GeneratedFile(i), TestBytes(i - 1))

\* C4 as amended: the directory holds one file for each distinct generated
\* name, so at most N and exactly N when the N random suffixes are pairwise
\* distinct; the file of the i-th generated name holds "test j" for the last
\* index j with that name, so "test i" when the suffixes are pairwise distinct.
C4_FilesPerDistinctName ==
  GeneratedDir =>
    LET n == lastOp.call.test_files.n
        files == lastOp.call.rnd.files
    IN  /\ Children(fs, lastOp.ret) = {GeneratedFile(i) : i \in 1..n}
        /\ Cardinality(Children(fs, lastOp.ret))
             = Cardinality({files[i] : i \in 1..n})
        /\ Cardinality(Children(fs, lastOp.ret)) <= n
        /\ \A i \in 1..n :
             \/ \E k \in (i + 1)..n : files[k] = files[i]
             \/ FileHolds(GeneratedFile(i), TestBytes(i - 1))

\* test_files=3 with three distinct suffixes: three files.
C4_Witness ==
  /\ GeneratedDir
  /\ lastOp.call.test_files.n = 3
  /\ Cardinality({lastOp.call.rnd.files[i] : i \in 1..3}) = 3
  /\ Cardinality(Children(fs, lastOp.ret)) = 3
  /\ FileHolds(GeneratedFile(3), TestBytes(2))

(***************************************************************************)
(* CreateTempFile: ownership and mode.                                     *)
(***************************************************************************)
CallsOf(name) == {i \in DOMAIN oscalls : oscalls[i].call = name}

CreatedFile == lastOp.call.op = "CreateTempFile" /\ lastOp.ok

\* chown and chmod are called exactly when asked for, chown with the ids as
\* given
C5_Calls ==
  CreatedFile =>
    /\ CallsOf("chown") # {} <=>
         (lastOp.call.uid # NA_ID \/ lastOp.call.gid # NA_ID)
    /\ \A i \in CallsOf("chown") :
         /\ oscalls[i].path = lastOp.ret
         /\ oscalls[i].uid = lastOp.call.uid
         /\ oscalls[i].gid = lastOp.call.gid
    /\ Cardinality(CallsOf("chown")) <= 1
    /\ CallsOf("chmod") # {} <=> lastOp.call.mode # IntArg(NA_MODE)
    /\ Cardinality(CallsOf("chmod")) <= 1

\* The owner and the mode a file has when nothing is asked for: what it had, or
\* what the process gives a new file
OwnerAndMode(f, p) ==
  IF p \in DOMAIN f THEN <<f[p].uid, f[p].gid, f[p].mode>>
  ELSE <<Env.uid, Env.gid, Env.mode>>

C5_DefaultsStep ==
  (/\ spent' = spent + 1
   /\ lastOp'.call.op = "CreateTempFile"
   /\ lastOp'.ok
   /\ lastOp'.call.uid = NA_ID
   /\ lastOp'.call.gid = NA_ID
   /\ lastOp'.call.mode = IntArg(NA_MODE))
  => /\ oscalls' = <<>>
     /\ OwnerAndMode(fs', lastOp'.ret) = OwnerAndMode(fs, lastOp'.ret)

\* C5: CreateTempFile calls os.chown exactly when uid or gid differs from
\* NA_ID, with the ids as given (so NA_ID for the one not supplied), and
\* os.chmod exactly when mode differs from NA_MODE; with all three at their
\* defaults it calls neither and the file's owner and mode stay as they were.
C5_OwnershipOnlyOnRequest == [](C5_Calls) /\ [][C5_DefaultsStep]_vars

\* Only gid was supplied: chown was called with uid NA_ID.
C5_Witness ==
  /\ CreatedFile
  /\ lastOp.call.uid = NA_ID
  /\ lastOp.call.gid # NA_ID
  /\ \E i \in CallsOf("chown") : oscalls[i].uid = NA_ID
  /\ fs[lastOp.ret].uid = Env.uid

(***************************************************************************)
(* The regex assertion.                                                    *)
(***************************************************************************)
Contains(str, sub) ==
  \E k \in 0..(Len(str) - Len(sub)) : SubSeq(str, k + 1, k + Len(sub)) = sub

Lowered(str) == [i \in 1..Len(str) |-> ToLower(str[i])]

\* The pattern string of the call and the flags it is to be compiled with
PatternOf(call) ==
  IF call.pattern.t = "str" THEN call.pattern.s ELSE call.pattern.pattern

MergedFlags(call) ==
  IF call.pattern.t = "str" THEN call.flags
  ELSE BitOr(call.flags, call.pattern.flags)

\* The pattern occurs in the text, letter case ignored under IGNORECASE
Occurs(p, text, flags) ==
  IF HasFlag(flags, Re.IGNORECASE) THEN Contains(Lowered(text), Lowered(p))
  ELSE Contains(text, p)

\* C7: the assertion returns exactly when the pattern, under the flags given
\* or-ed with those of a compiled pattern, occurs in the text; otherwise it
\* raises with a message that holds the pattern and the text, a custom msg
\* given or not.
C7_RegexAssertion ==
  lastOp.call.op = "assertRegexpMatchesWithFlags" =>
    /\ lastOp.ok <=>
         Occurs(PatternOf(lastOp.call), lastOp.call.text,
                MergedFlags(lastOp.call))
    /\ ~lastOp.ok =>
         /\ Contains(lastOp.ret, PatternOf(lastOp.call))
         /\ Contains(lastOp.ret, lastOp.call.text)

\* The assertion failed on a compiled pattern with a custom msg and a flag
\* given in the call.
C7_Witness ==
  /\ lastOp.call.op = "assertRegexpMatchesWithFlags"
  /\ ~lastOp.ok
  /\ lastOp.call.pattern.t = "compiled"
  /\ lastOp.call.msg.t = "text"
  /\ lastOp.call.msg.s # <<>>
  /\ lastOp.call.flags # 0
  /\ lastOp.call.text # <<>>

(***************************************************************************)
(* The help topics.                                                        *)
(***************************************************************************)
\* C9: the names of the six topics are pairwise distinct and no two topics
\* share a key (a name or an alias), so a lookup resolves to at most one topic.
C9_KeysUnambiguous ==
  /\ \A g \in HelpSpecs, h \in HelpSpecs :
       g # h => (g.help_name # h.help_name /\ HelpKeys(g) \cap HelpKeys(h) = {})
  /\ Cardinality({h.help_name : h \in HelpSpecs}) = 6
  /\ Cardinality(resolved) <= 1

\* All six topics are loaded and the alias "project" resolves to projects only.
C9_Witness ==
  /\ registered = HelpSpecs
  /\ query = "project"
  /\ resolved = {ProjectsHelpSpec}

\* C10 as claimed: the detailed text of every topic defined is
\* 'detailed_help/<help_name>.md', and the references of distinct topics differ.
C10_TextBoundToName ==
  /\ \A h \in registered :
       h.help_text = "detailed_help/" \o h.help_name \o ".md"
  /\ \A g \in registered, h \in registered :
       g # h => g.help_text # h.help_text

====
